---------------------------- MODULE Spec2Model ----------------------------
(***************************************************************************)
(* Model of pact_matching/src/time_utils.rs: the date/time pattern         *)
(* compiler (parse_pattern) and the value validator                        *)
(* (validate_datetime_string / validate_datetime).                         *)
(*                                                                         *)
(* A string is a sequence of one-character strings.  A parser result is a  *)
(* record [ok, rest, ...]: ok = FALSE stands for nom's Err::Error (the     *)
(* input type is CompleteStr, so Incomplete never occurs).                 *)
(***************************************************************************)
EXTENDS Integers, Sequences, FiniteSets, TLC

VARIABLES value, format, pc, tokens, buffer, idx, tried, result

vars == <<value, format, pc, tokens, buffer, idx, tried, result>>

-----------------------------------------------------------------------------
(* Characters *)

Apostrophe == "'"

DigitChars == <<"0","1","2","3","4","5","6","7","8","9">>

UpperChars == <<"A","B","C","D","E","F","G","H","I","J","K","L","M",
                "N","O","P","Q","R","S","T","U","V","W","X","Y","Z">>

LowerChars == <<"a","b","c","d","e","f","g","h","i","j","k","l","m",
                "n","o","p","q","r","s","t","u","v","w","x","y","z">>

is_digit(ch) == \E i \in 1..10 : DigitChars[i] = ch

DigitValue(ch) == (CHOOSE i \in 1..10 : DigitChars[i] = ch) - 1

ToLower(ch) ==
  IF \E i \in 1..26 : UpperChars[i] = ch
  THEN LowerChars[CHOOSE i \in 1..26 : UpperChars[i] = ch]
  ELSE ch

ToUpper(ch) ==
  IF \E i \in 1..26 : LowerChars[i] = ch
  THEN UpperChars[CHOOSE i \in 1..26 : LowerChars[i] = ch]
  ELSE ch

Drop(s, n) == SubSeq(s, n + 1, Len(s))

Take(s, n) == SubSeq(s, 1, n)

StartsWith(s, t) == Len(s) >= Len(t) /\ Take(s, Len(t)) = t

Fail(s) == [ok |-> FALSE, rest |-> s]

-----------------------------------------------------------------------------
(* DateTimePatternToken *)

Tok(k) == [kind |-> k, text |-> <<>>]

Text(t) == [kind |-> "Text", text |-> t]

-----------------------------------------------------------------------------
(* Pattern compiler *)

\* Length of the longest prefix of s whose characters are all in set.
RECURSIVE RunLen(_, _)
RunLen(s, set) ==
  IF s # <<>> /\ Head(s) \in set THEN 1 + RunLen(Tail(s), set) ELSE 0

Many1TakeOne(s, set) == IF s # <<>> /\ Head(s) \in set THEN 1 ELSE 0

\* many1!(char!(c)) and many1!(is_a!(set)): the number of characters the
\* repetition consumes; 0 when the first character is not in the set.
Many1(s, set) == RunLen(s, set)

\* value!(token, many1!(...)): the run-length is dropped, only the token kind
\* is returned.
RunPattern(s, set, k) ==
  LET n == Many1(s, set)
  IN  IF n >= 1 THEN [ok |-> TRUE, tok |-> Tok(k), rest |-> Drop(s, n)]
      ELSE [ok |-> FALSE, tok |-> Tok(k), rest |-> s]

era_pattern(s)                  == RunPattern(s, {"G"}, "Era")
week_in_year_pattern(s)         == RunPattern(s, {"w"}, "WeekInYear")
week_in_month_pattern(s)        == RunPattern(s, {"W"}, "WeekInMonth")
day_in_year_pattern(s)          == RunPattern(s, {"D"}, "DayInYear")
day_in_month_pattern(s)         == RunPattern(s, {"d"}, "DayInMonth")
day_of_week_in_month_pattern(s) == RunPattern(s, {"F"}, "DayOfWeekInMonth")
day_name_pattern(s)             == RunPattern(s, {"E"}, "DayName")
day_of_week_pattern(s)          == RunPattern(s, {"u"}, "DayOfWeek")
year_pattern(s)                 == RunPattern(s, {"y", "Y"}, "Year")
month_pattern(s)                == RunPattern(s, {"M", "L"}, "Month")

TextExcludedNoU == {"G","y","Y","M","L","w","W","d","D","F","E","'"}

\* none_of!("GyYMLwWdDFEu'")
TextExcluded == {"G","y","Y","M","L","w","W","d","D","F","E","u","'"}

\* Length of the longest prefix of s with no character in set.
RECURSIVE RunLenNot(_, _)
RunLenNot(s, set) ==
  IF s # <<>> /\ Head(s) \notin set THEN 1 + RunLenNot(Tail(s), set) ELSE 0

text_pattern(s) ==
  LET n == RunLenNot(s, TextExcluded)
  IN  IF n >= 1 THEN [ok |-> TRUE, tok |-> Text(Take(s, n)), rest |-> Drop(s, n)]
      ELSE [ok |-> FALSE, tok |-> Text(<<>>), rest |-> s]

\* itertools coalesce with |x, y| if x == '\'' && y == '\'' { Ok('\'') }
\* else { Err((x, y)) }: `last` is the pending element; a pair of apostrophes
\* is merged into the pending element, anything else emits it.
RECURSIVE CoalesceFrom(_, _)
CoalesceFrom(last, s) ==
  IF s = <<>> THEN <<last>>
  ELSE IF last = Apostrophe /\ Head(s) = Apostrophe
       THEN CoalesceFrom(Apostrophe, Tail(s))
       ELSE <<last>> \o CoalesceFrom(Head(s), Tail(s))

CoalesceKeep(seg) == seg

Coalesce(seg) == IF seg = <<>> THEN <<>> ELSE CoalesceFrom(Head(seg), Tail(seg))

\* many1!(alt!(tag!("''") | is_not!("'"))): the list of matched segments and
\* the input left when neither alternative matches.
RECURSIVE QuotedSegments(_)
QuotedSegments(s) ==
  IF StartsWith(s, <<Apostrophe, Apostrophe>>)
  THEN LET r == QuotedSegments(Drop(s, 2))
       IN  [segs |-> <<Take(s, 2)>> \o r.segs, rest |-> r.rest]
  ELSE LET n == RunLenNot(s, {Apostrophe})
       IN  IF n >= 1
           THEN LET r == QuotedSegments(Drop(s, n))
                IN  [segs |-> <<Take(s, n)>> \o r.segs, rest |-> r.rest]
           ELSE [segs |-> <<>>, rest |-> s]

\* segments mapped through coalesce, then joined
RECURSIVE JoinCoalesced(_)
JoinCoalesced(segs) ==
  IF segs = <<>> THEN <<>>
  ELSE Coalesce(Head(segs)) \o JoinCoalesced(Tail(segs))

quoted_text_pattern(s) ==
  IF s = <<>> \/ Head(s) # Apostrophe
  THEN [ok |-> FALSE, tok |-> Text(<<>>), rest |-> s]
  ELSE LET r == QuotedSegments(Tail(s))
       IN  IF r.segs # <<>> /\ r.rest # <<>> /\ Head(r.rest) = Apostrophe
           THEN [ok |-> TRUE, tok |-> Text(JoinCoalesced(r.segs)),
                 rest |-> Tail(r.rest)]
           ELSE [ok |-> FALSE, tok |-> Text(<<>>), rest |-> s]

quote_pattern(s) ==
  IF StartsWith(s, <<Apostrophe, Apostrophe>>)
  THEN [ok |-> TRUE, tok |-> Text(<<Apostrophe>>), rest |-> Drop(s, 2)]
  ELSE [ok |-> FALSE, tok |-> Text(<<>>), rest |-> s]

\* The thirteen alternatives of parse_pattern, by name.
PatternRecognizer(name, s) ==
  CASE name = "era_pattern"                  -> era_pattern(s)
    [] name = "year_pattern"                 -> year_pattern(s)
    [] name = "month_pattern"                -> month_pattern(s)
    [] name = "week_in_year_pattern"         -> week_in_year_pattern(s)
    [] name = "week_in_month_pattern"        -> week_in_month_pattern(s)
    [] name = "day_in_year_pattern"          -> day_in_year_pattern(s)
    [] name = "day_in_month_pattern"         -> day_in_month_pattern(s)
    [] name = "day_of_week_in_month_pattern" -> day_of_week_in_month_pattern(s)
    [] name = "day_name_pattern"             -> day_name_pattern(s)
    [] name = "day_of_week_pattern"          -> day_of_week_pattern(s)
    [] name = "quoted_text_pattern"          -> quoted_text_pattern(s)
    [] name = "quote_pattern"                -> quote_pattern(s)
    [] name = "text_pattern"                 -> text_pattern(s)

\* The order of the alternatives in parse_pattern's alt!.
PatternAlternatives ==
  << "era_pattern", "year_pattern", "month_pattern", "week_in_year_pattern",
     "week_in_month_pattern", "day_in_year_pattern", "day_in_month_pattern",
     "day_of_week_in_month_pattern", "day_name_pattern", "day_of_week_pattern",
     "quoted_text_pattern", "quote_pattern", "text_pattern" >>

\* alt!: the result of the first alternative of `order` that matches.
RECURSIVE AltPattern(_, _)
AltPattern(order, s) ==
  IF order = <<>> THEN [ok |-> FALSE, tok |-> Text(<<>>), rest |-> s]
  ELSE LET r == PatternRecognizer(Head(order), s)
       IN  IF r.ok THEN r ELSE AltPattern(Tail(order), s)

\* many0!(alt!(...)): collect tokens until the alternation fails; the failure
\* ends the repetition with success, leaving the unparsed input in `rest`.  An
\* alternative that succeeds without consuming is an error unless at the end
\* of the input.
RECURSIVE ParsePatternWith(_, _)
ParsePatternWith(order, s) ==
  LET r == AltPattern(order, s)
  IN  IF ~r.ok THEN [ok |-> TRUE, tokens |-> <<>>, rest |-> s]
      ELSE IF r.rest = s
           THEN [ok |-> (s = <<>>), tokens |-> <<>>, rest |-> s]
           ELSE LET t == ParsePatternWith(order, r.rest)
                IN  [ok |-> t.ok, tokens |-> <<r.tok>> \o t.tokens,
                     rest |-> t.rest]

parse_pattern(s) == ParsePatternWith(PatternAlternatives, s)

-----------------------------------------------------------------------------
(* Value recognizers *)

DigitSet == {DigitChars[i] : i \in 1..10}

\* tag!(t): exact, case-sensitive prefix match.
Tag(t, buf) ==
  IF StartsWith(buf, t) THEN [ok |-> TRUE, rest |-> Drop(buf, Len(t))]
  ELSE Fail(buf)

\* tag_no_case!(t): prefix match comparing lower-cased characters.
TagNoCase(t, buf) ==
  IF Len(buf) >= Len(t) /\ \A i \in 1..Len(t) : ToLower(buf[i]) = ToLower(t[i])
  THEN [ok |-> TRUE, rest |-> Drop(buf, Len(t))]
  ELSE Fail(buf)

\* alt!(tag_no_case!(a1) | tag_no_case!(a2) | ...): first match in order.
RECURSIVE AltTagNoCase(_, _)
AltTagNoCase(alts, buf) ==
  IF alts = <<>> THEN Fail(buf)
  ELSE LET r == TagNoCase(Head(alts), buf)
       IN  IF r.ok THEN r ELSE AltTagNoCase(Tail(alts), buf)

EraAlternatives == << <<"a","d">>, <<"b","c">> >>

era(buf) == AltTagNoCase(EraAlternatives, buf)

MonthTextShortFirst ==
  << <<"j","a","n">>, <<"j","a","n","u","a","r","y">>,
     <<"f","e","b">>, <<"f","e","b","r","u","a","r","y">>,
     <<"m","a","r">>, <<"m","a","r","c","h">>,
     <<"a","p","r">>, <<"a","p","r","i","l">>,
     <<"m","a","y">>, <<"m","a","y">>,
     <<"j","u","n">>, <<"j","u","n","e">>,
     <<"j","u","l">>, <<"j","u","l","y">>,
     <<"a","u","g">>, <<"a","u","g","u","s","t">>,
     <<"s","e","p">>, <<"s","e","p","t","e","m","b","e","r">>,
     <<"o","c","t">>, <<"o","c","t","o","b","e","r">>,
     <<"n","o","v">>, <<"n","o","v","e","m","b","e","r">>,
     <<"d","e","c">>, <<"d","e","c","e","m","b","e","r">> >>

\* The alternatives of month_text, in source order.
MonthTextAlternatives ==
  << <<"j","a","n","u","a","r","y">>, <<"j","a","n">>,
     <<"f","e","b","r","u","a","r","y">>, <<"f","e","b">>,
     <<"m","a","r","c","h">>, <<"m","a","r">>,
     <<"a","p","r","i","l">>, <<"a","p","r">>,
     <<"m","a","y">>, <<"m","a","y">>,
     <<"j","u","n","e">>, <<"j","u","n">>,
     <<"j","u","l","y">>, <<"j","u","l">>,
     <<"a","u","g","u","s","t">>, <<"a","u","g">>,
     <<"s","e","p","t","e","m","b","e","r">>, <<"s","e","p">>,
     <<"o","c","t","o","b","e","r">>, <<"o","c","t">>,
     <<"n","o","v","e","m","b","e","r">>, <<"n","o","v">>,
     <<"d","e","c","e","m","b","e","r">>, <<"d","e","c">> >>

month_text(buf) == AltTagNoCase(MonthTextAlternatives, buf)

\* The alternatives of day_of_week_name, in source order.
DayOfWeekNameAlternatives ==
  << <<"s","u","n","d","a","y">>, <<"s","u","n">>,
     <<"m","o","n","d","a","y">>, <<"m","o","n">>,
     <<"t","u","e","s","d","a","y">>, <<"t","u","e">>,
     <<"w","e","d","n","e","s","d","a","y">>, <<"w","e","d">>,
     <<"t","h","u","r","s","d","a","y">>, <<"t","h","u">>,
     <<"f","r","i","d","a","y">>, <<"f","r","i">>,
     <<"s","a","t","u","r","d","a","y">>, <<"s","a","t">> >>

day_of_week_name(buf) == AltTagNoCase(DayOfWeekNameAlternatives, buf)

\* str::parse::<usize> on a digit string: the decimal value; the empty string
\* is a parse error.  The recognizers pass at most two digits, far below the
\* width of usize.
RECURSIVE DecimalValue(_, _)
DecimalValue(acc, m) ==
  IF m = <<>> THEN acc
  ELSE DecimalValue(acc * 10 + DigitValue(Head(m)), Tail(m))

ParseUsize(m) ==
  IF m # <<>> /\ \A i \in 1..Len(m) : is_digit(m[i])
  THEN [ok |-> TRUE, v |-> DecimalValue(0, m)]
  ELSE [ok |-> FALSE, v |-> 0]

ValidateNumberNoLower(m, lower, upper) ==
  LET p == ParseUsize(m) IN p.ok /\ p.v <= upper

\* validate_number: TRUE for Ok(m), FALSE for Err(..)
validate_number(m, lower, upper) ==
  LET p == ParseUsize(m) IN p.ok /\ p.v >= lower /\ p.v <= upper

validate_month(m)         == validate_number(m, 1, 12)
validate_week_in_year(m)  == validate_number(m, 1, 56)
validate_week_in_month(m) == validate_number(m, 1, 5)
validate_day_in_year(m)   == validate_number(m, 1, 356)
validate_day_in_month(m)  == validate_number(m, 1, 31)
validate_day_of_week(m)   == validate_number(m, 1, 7)

\* take_while_m_n!(m, n, is_digit): the longest digit prefix, cut at n
\* characters; fails when it is shorter than m.
TakeWhileMN(m, n, buf) ==
  LET k == RunLen(buf, DigitSet)
      t == IF k > n THEN n ELSE k
  IN  IF k >= m THEN [ok |-> TRUE, out |-> Take(buf, t), rest |-> Drop(buf, t)]
      ELSE [ok |-> FALSE, out |-> <<>>, rest |-> buf]

\* map_res!(take_while_m_n!(..), validate_..): valid is the validate function's
\* verdict on the taken digits.
MapRes(t, valid, buf) ==
  IF t.ok /\ valid THEN [ok |-> TRUE, rest |-> t.rest] ELSE Fail(buf)

month_num(buf) ==
  LET t == TakeWhileMN(1, 2, buf) IN MapRes(t, validate_month(t.out), buf)

month(buf) ==
  LET r == month_text(buf) IN IF r.ok THEN r ELSE month_num(buf)

week_in_year(buf) ==
  LET t == TakeWhileMN(1, 2, buf) IN MapRes(t, validate_week_in_year(t.out), buf)

week_in_month(buf) ==
  LET t == TakeWhileMN(1, 2, buf) IN MapRes(t, validate_week_in_month(t.out), buf)

DayInYearThreeDigits(buf) ==
  LET t == TakeWhileMN(1, 3, buf) IN MapRes(t, validate_day_in_year(t.out), buf)

day_in_year(buf) ==
  LET t == TakeWhileMN(1, 2, buf) IN MapRes(t, validate_day_in_year(t.out), buf)

day_in_month(buf) ==
  LET t == TakeWhileMN(1, 2, buf) IN MapRes(t, validate_day_in_month(t.out), buf)

day_of_week(buf) ==
  LET t == TakeWhileMN(1, 1, buf) IN MapRes(t, validate_day_of_week(t.out), buf)

\* nom::digit1: one or more decimal digits.
digit1(buf) ==
  LET k == RunLen(buf, DigitSet)
  IN  IF k >= 1 THEN [ok |-> TRUE, rest |-> Drop(buf, k)] ELSE Fail(buf)

\* text(buffer, t): tag! of the token's characters.
text(buf, t) == Tag(t, buf)

\* The match over the token kind in validate_datetime_string.
Recognize(token, buf) ==
  CASE token.kind = "Era"              -> era(buf)
    [] token.kind = "Year"             -> digit1(buf)
    [] token.kind = "WeekInYear"       -> week_in_year(buf)
    [] token.kind = "WeekInMonth"      -> week_in_month(buf)
    [] token.kind = "DayInYear"        -> day_in_year(buf)
    [] token.kind = "DayInMonth"       -> day_in_month(buf)
    [] token.kind = "Month"            -> month(buf)
    [] token.kind = "Text"             -> text(buf, token.text)
    [] token.kind = "DayOfWeekInMonth" -> digit1(buf)
    [] token.kind = "DayName"          -> day_of_week_name(buf)
    [] token.kind = "DayOfWeek"        -> day_of_week(buf)

\* validate_datetime_string as a function: "ok" or "err".
RECURSIVE validate_datetime_string(_, _)
validate_datetime_string(buf, toks) ==
  IF toks = <<>> THEN (IF Len(buf) > 0 THEN "err" ELSE "ok")
  ELSE LET r == Recognize(Head(toks), buf)
       IN  IF r.ok THEN validate_datetime_string(r.rest, Tail(toks)) ELSE "err"

\* validate_datetime as a function: "ok" or "err".
validate_datetime(v, f) ==
  LET p == parse_pattern(f)
  IN  IF p.ok THEN validate_datetime_string(v, p.tokens) ELSE "err"

-----------------------------------------------------------------------------
(* One call of validate_datetime(value, format), step by step.             *)
(* pc: "start" before parse_pattern, "validate" inside the token loop of   *)
(* validate_datetime_string, "done" after the return.  idx is the loop     *)
(* position, buffer the unconsumed value, tried the indices of the tokens  *)
(* whose recognizer has run, result the returned Result.                   *)

InitWith(inputs) ==
  /\ \E in \in inputs : value = in[1] /\ format = in[2]
  /\ pc = "start"
  /\ tokens = <<>>
  /\ buffer = <<>>
  /\ idx = 0
  /\ tried = <<>>
  /\ result = "none"

\* validate_datetime: parse the format; Ok enters validate_datetime_string
\* with the tokens (the unparsed rest of the format is dropped), Err returns.
Compile ==
  /\ pc = "start"
  /\ LET p == parse_pattern(format)
     IN  IF p.ok
         THEN /\ tokens' = p.tokens
              /\ buffer' = value
              /\ idx' = 1
              /\ pc' = "validate"
              /\ result' = result
         ELSE /\ pc' = "done"
              /\ result' = "err"
              /\ UNCHANGED <<tokens, buffer, idx>>
  /\ UNCHANGED <<value, format, tried>>

\* One pass of the loop whose recognizer succeeds: buffer = result.0.
TokenMatches ==
  /\ pc = "validate"
  /\ idx <= Len(tokens)
  /\ LET r == Recognize(tokens[idx], buffer)
     IN  /\ r.ok
         /\ buffer' = r.rest
  /\ idx' = idx + 1
  /\ tried' = Append(tried, idx)
  /\ UNCHANGED <<value, format, pc, tokens, result>>

TokenRejectsAndContinues ==
  /\ pc = "validate"
  /\ idx <= Len(tokens)
  /\ ~Recognize(tokens[idx], buffer).ok
  /\ idx' = idx + 1
  /\ tried' = Append(tried, idx)
  /\ UNCHANGED <<value, format, pc, tokens, buffer, result>>

\* One pass of the loop whose recognizer fails: `?` returns the error.
TokenRejects ==
  /\ pc = "validate"
  /\ idx <= Len(tokens)
  /\ ~Recognize(tokens[idx], buffer).ok
  /\ tried' = Append(tried, idx)
  /\ pc' = "done"
  /\ result' = "err"
  /\ UNCHANGED <<value, format, tokens, buffer, idx>>

FinishIgnoringRemainder ==
  /\ pc = "validate"
  /\ idx > Len(tokens)
  /\ pc' = "done"
  /\ result' = "ok"
  /\ UNCHANGED <<value, format, tokens, buffer, idx, tried>>

\* After the loop: remaining data is an error, an empty buffer is Ok(()).
Finish ==
  /\ pc = "validate"
  /\ idx > Len(tokens)
  /\ pc' = "done"
  /\ result' = IF Len(buffer) > 0 THEN "err" ELSE "ok"
  /\ UNCHANGED <<value, format, tokens, buffer, idx, tried>>

Next == Compile \/ TokenMatches \/ TokenRejects \/ Finish

-----------------------------------------------------------------------------
(* Inputs of the checked calls *)

MaxDigits == 3

MaxRun == 2

MaxPatLen == 4

MaxTail == 1

\* All strings of length n over the characters in alphabet.
RECURSIVE Strings(_, _)
Strings(alphabet, n) ==
  IF n = 0 THEN {<<>>}
  ELSE {<<c>> \o s : c \in alphabet, s \in Strings(alphabet, n - 1)}

StringsUpTo(alphabet, n) == UNION {Strings(alphabet, k) : k \in 0..n}

\* The values and formats of the unit tests of time_utils.rs, and values and
\* formats next to them.
TestValues ==
  {
     <<>>, <<"2","0","0","1","-","0","1","-","0","2">>,
     <<"2","0","0","1","-","0","1","-","0","2"," ","1","2",":","3","3",":","4","5">>,
     <<"W","e","d",","," ","J","u","l"," ","4",","," ","'","0","1">>,
     <<"2","0","0","1","-","W","2","7","-","3">>, <<"a","d">>, <<"A","D">>,
     <<"b","c">>, <<"B","C">>, <<"B","X">>, <<"2","0","0","0">>,
     <<"2","0">>, <<"j","a","n">>, <<"o","c","t","o","b","e","r">>,
     <<"D","e","c","e","m","b","e","r">>, <<"0","1">>, <<"1","0">>,
     <<"1","0","0">>, <<"1","3">>, <<"3","1">>, <<"0","0">>,
     <<"e","l","l","o">>, <<"e","l","o">>,
     <<"d","d","-","M","M","-","y","y","y","y">>,
     <<"d","d","-","'","M","M","'","-","y","y","y","y">>, <<"1","2">>,
     <<"3">>, <<"5","7">>, <<"0">>, <<"0","3">>, <<"3","2">>,
     <<"T","u","e">>, <<"T","u","e","s","d","a","y">>,
     <<"2","0","0","1","0","1">>, <<"3","2","1">>, <<"'">>, <<"'","'">>,
     <<"2","0","0","0","a","b","c">>, <<"2","0","0","0","'","a","b","c">>,
     <<"J","a","n","u","a","r","y">>, <<"j","a","n","u">>, <<"7">>,
     <<"2","0","0","1","-","0","1","-","0","2"," ","H","H",":","m","m",":","s","s">> }

TestFormats ==
  {
     <<>>, <<"y","y","y","y","-","M","M","-","d","d">>,
     <<"y","y","y","y","-","M","M","-","d","d"," ","H","H",":","m","m",":","s","s">>,
     <<"E","E","E",","," ","M","M","M"," ","d",","," ","'","'","y","y">>,
     <<"Y","Y","Y","Y","-","'","W","'","w","w","-","u">>, <<"G">>,
     <<"G","G">>, <<"G","G","G">>, <<"y">>, <<"y","y">>,
     <<"y","y","y","y">>, <<"Y","Y","Y","Y">>, <<"Y","Y","y","y">>, <<"M">>,
     <<"M","M">>, <<"M","M","M">>, <<"L">>, <<"L","L","L">>,
     <<"e","l","l","o">>,
     <<"'","d","d","-","M","M","-","y","y","y","y","'">>,
     <<"'","d","d","-","'","'","M","M","'","'","-","y","y","y","y","'">>,
     <<"'","'">>, <<"w">>, <<"w","w">>, <<"W">>, <<"W","W">>, <<"w","W">>,
     <<"d">>, <<"d","d">>, <<"D">>, <<"D","D">>, <<"D","D","D">>,
     <<"d","D">>, <<"F">>, <<"E","E","E">>, <<"u">>,
     <<"y","y","y","y","M","M">>, <<"'","a","b","c">>,
     <<"y","y","y","y","'","a","b","c">>, <<"'","'","'","'">>,
     <<"'","'","'">>, <<"y","F">>, <<"u","d">> }

\* The letter classes of the run recognizers whose value is a number.
NumericClasses ==
  { {"y","Y"}, {"M","L"}, {"w"}, {"W"}, {"D"}, {"d"}, {"F"}, {"u"} }

\* The letter classes of all ten run recognizers.
LetterClasses == NumericClasses \cup { {"G"}, {"E"} }

\* Formats that are one non-empty run over one of the classes.
RunFormats(classes) ==
  UNION {StringsUpTo(c, MaxRun) \ {<<>>} : c \in classes}

GeneralInputs == TestValues \X TestFormats

NumberInputs == StringsUpTo(DigitSet, MaxDigits) \X RunFormats(NumericClasses)

Init == InitWith(GeneralInputs)

Spec == Init /\ [][Next]_vars

InitNumbers == InitWith(NumberInputs)

SpecNumbers == InitNumbers /\ [][Next]_vars

-----------------------------------------------------------------------------
(* Vocabulary of the properties *)

IsDigitString(s) == \A i \in 1..Len(s) : s[i] \in DigitSet

\* s is a non-empty run of characters of the class.
IsRunOver(s, class) == s # <<>> /\ \A i \in 1..Len(s) : s[i] \in class

\* The cursor after the first k tokens have been applied in order, each to
\* the suffix left by the one before; ok = FALSE when one of them rejects.
RECURSIVE CursorAfter(_, _, _)
CursorAfter(v, toks, k) ==
  IF k = 0 THEN [ok |-> TRUE, rest |-> v]
  ELSE LET c == CursorAfter(v, toks, k - 1)
       IN  IF c.ok THEN Recognize(toks[k], c.rest) ELSE c

\* The index of the first token that rejects the suffix left by the tokens
\* before it; 0 when every token accepts.
FirstRejecting(v, toks) ==
  IF \E k \in 1..Len(toks) : ~CursorAfter(v, toks, k).ok
  THEN CHOOSE k \in 1..Len(toks) :
         /\ ~CursorAfter(v, toks, k).ok
         /\ CursorAfter(v, toks, k - 1).ok
  ELSE 0

\* Some split of s into consecutive pieces, one per token, where each token's
\* recognizer accepts its piece entirely.
RECURSIVE SplitExists(_, _)
SplitExists(s, toks) ==
  IF toks = <<>> THEN s = <<>>
  ELSE \E k \in 0..Len(s) :
         /\ LET r == Recognize(Head(toks), Take(s, k))
            IN  r.ok /\ r.rest = <<>>
         /\ SplitExists(Drop(s, k), Tail(toks))

-----------------------------------------------------------------------------
(* C1 *)

\* C1: validate_datetime_string succeeds exactly when every token's
\* recognizer, applied in pattern order to the suffix left by the previous
\* tokens, succeeds and the suffix after the last token is empty; data left
\* after the last token is a failure; the empty token sequence accepts only
\* the empty value.
C1_SuccessIffAllTokensMatchAndNothingRemains ==
  pc = "done" =>
    LET c == CursorAfter(value, tokens, Len(tokens))
    IN  /\ (result = "ok") <=> (c.ok /\ c.rest = <<>>)
        /\ (c.ok /\ Len(c.rest) >= 1) => result = "err"
        /\ tokens = <<>> => ((result = "ok") <=> (value = <<>>))

\* Every token matched and characters are left: the call failed.
C1_WitnessTrailingData ==
  /\ pc = "done"
  /\ tokens # <<>>
  /\ idx = Len(tokens) + 1
  /\ Len(buffer) >= 1
  /\ result = "err"

-----------------------------------------------------------------------------
(* C2 *)

\* C2: when the format cannot be fully tokenized (an apostrophe that is never
\* closed stops the compiler before the end of the format), validate_datetime
\* returns a failure for every value.
C2_UntokenizableFormatFails ==
  (pc = "done" /\ parse_pattern(format).rest # <<>>) => result = "err"

-----------------------------------------------------------------------------
(* C3 *)

DateTimeValue == <<"2","0","0","1","-","0","1","-","0","2"," ","1","2",":","3","3",":","4","5">>

DateTimeFormat == <<"y","y","y","y","-","M","M","-","d","d"," ","H","H",":","m","m",":","s","s">>

\* C3: validate_datetime("2001-01-02 12:33:45", "yyyy-MM-dd HH:mm:ss")
\* returns success.
C3_DateAndTimeOfDayAccepted ==
  (pc = "done" /\ value = DateTimeValue /\ format = DateTimeFormat)
    => result = "ok"

-----------------------------------------------------------------------------
(* C8 *)

\* C8: tokens are tried strictly in pattern order, the cursor advances only
\* after a token succeeds, and at the first token that rejects the current
\* suffix the call fails without trying a later token or retrying an earlier
\* one; "200101" is rejected by "yyyyMM" and "321" by "dD".
C8_GreedyFailFast ==
  /\ \A i \in 1..Len(tried) : tried[i] = i
  /\ pc = "validate" =>
       /\ Len(tried) = idx - 1
       /\ CursorAfter(value, tokens, idx - 1) = [ok |-> TRUE, rest |-> buffer]
  /\ pc = "done" =>
       LET k == FirstRejecting(value, tokens)
       IN  /\ k # 0 => (result = "err" /\ Len(tried) = k)
           /\ k = 0 => Len(tried) = Len(tokens)
  /\ (pc = "done" /\ value = <<"2","0","0","1","0","1">> /\ format = <<"y","y","y","y","M","M">>)
       => result = "err"
  /\ (pc = "done" /\ value = <<"3","2","1">> /\ format = <<"d","D">>)
       => result = "err"

\* A call that failed at a token before the last one although another split
\* of the value satisfies every token.
C8_WitnessRejectedDespiteOtherSplit ==
  /\ pc = "done"
  /\ result = "err"
  /\ Len(tried) < Len(tokens)
  /\ SplitExists(value, tokens)

-----------------------------------------------------------------------------
(* C4 *)

\* The range-checked numeric fields: letter class, maximum width, range.
RangeCheckedFields ==
  { [class |-> {"M","L"}, width |-> 2, lo |-> 1, hi |-> 12],
    [class |-> {"w"},     width |-> 2, lo |-> 1, hi |-> 56],
    [class |-> {"W"},     width |-> 2, lo |-> 1, hi |-> 5],
    [class |-> {"D"},     width |-> 2, lo |-> 1, hi |-> 356],
    [class |-> {"d"},     width |-> 2, lo |-> 1, hi |-> 31],
    [class |-> {"u"},     width |-> 1, lo |-> 1, hi |-> 7] }

\* C4: with a range-checked numeric token as the whole pattern, a value made
\* only of digits is accepted if and only if its length is between 1 and the
\* field's maximum width and its integer value lies in the closed range.
C4_NumericAcceptedIffWidthAndRange ==
  (pc = "done" /\ IsDigitString(value)) =>
    \A fld \in RangeCheckedFields :
      IsRunOver(format, fld.class) =>
        ((result = "ok") <=>
           /\ Len(value) >= 1
           /\ Len(value) <= fld.width
           /\ DecimalValue(0, value) >= fld.lo
           /\ DecimalValue(0, value) <= fld.hi)

\* "31" has passed "dd".
C4_WitnessDayInMonthAccepted ==
  /\ pc = "done"
  /\ format = <<"d","d">>
  /\ value = <<"3","1">>
  /\ result = "ok"

-----------------------------------------------------------------------------
(* C10 *)

\* C10: a value of three or more digits is never accepted by a pattern that
\* is a single D, d, w, W, M/L or u run; for DayInYear the upper bound never
\* rejects anything (a digit value passes exactly when it has one or two
\* digits and is at least 1), so 100..356 are rejected; a y/Y run and an F
\* run accept every digit string of length >= 1.
C10_ThreeDigitsNeverPassRangeCheckedFields ==
  (pc = "done" /\ IsDigitString(value)) =>
    /\ (Len(value) >= 3 /\ \E fld \in RangeCheckedFields :
                              IsRunOver(format, fld.class))
         => result = "err"
    /\ IsRunOver(format, {"D"}) =>
         ((result = "ok") <=>
            (Len(value) \in {1, 2} /\ DecimalValue(0, value) >= 1))
    /\ ((IsRunOver(format, {"y","Y"}) \/ IsRunOver(format, {"F"}))
          /\ Len(value) >= 1)
         => result = "ok"

\* Day-of-year 100 has been rejected by "DD".
C10_WitnessDayOfYear100Rejected ==
  /\ pc = "done"
  /\ format = <<"D","D">>
  /\ value = <<"1","0","0">>
  /\ idx = 2
  /\ buffer = <<"0">>
  /\ result = "err"

-----------------------------------------------------------------------------
(* Pattern inputs: every format over a small alphabet that has both letter  *)
(* classes and the apostrophe, every two-character format over all the      *)
(* characters the compiler distinguishes, every run format, and the formats *)
(* of the unit tests.                                                       *)

PatternAlphabet == {"y", "Y", "M", "d", "'", "-"}

PatternChars ==
  {"G","y","Y","M","L","w","W","d","D","F","E","u","'","a","-"}

\* The reserved letter classes and the token kind each compiles to.
ReservedClasses ==
  { [class |-> {"G"},     kind |-> "Era"],
    [class |-> {"y","Y"}, kind |-> "Year"],
    [class |-> {"M","L"}, kind |-> "Month"],
    [class |-> {"w"},     kind |-> "WeekInYear"],
    [class |-> {"W"},     kind |-> "WeekInMonth"],
    [class |-> {"D"},     kind |-> "DayInYear"],
    [class |-> {"d"},     kind |-> "DayInMonth"],
    [class |-> {"F"},     kind |-> "DayOfWeekInMonth"],
    [class |-> {"E"},     kind |-> "DayName"],
    [class |-> {"u"},     kind |-> "DayOfWeek"] }

ClassOf(c) ==
  IF \E r \in ReservedClasses : c \in r.class
  THEN (CHOOSE r \in ReservedClasses : c \in r.class).kind
  ELSE "none"

\* The pattern with every reserved-letter run outside quotes cut down to its
\* first letter.  quoted: an odd number of apostrophes has been passed.
RECURSIVE CollapseRuns(_, _, _)
CollapseRuns(prev, quoted, s) ==
  IF s = <<>> THEN <<>>
  ELSE LET c == Head(s)
       IN  IF c = Apostrophe
           THEN <<c>> \o CollapseRuns("none", ~quoted, Tail(s))
           ELSE IF ~quoted /\ ClassOf(c) # "none" /\ ClassOf(c) = prev
                THEN CollapseRuns(prev, quoted, Tail(s))
                ELSE <<c>> \o CollapseRuns(IF quoted THEN "none" ELSE ClassOf(c),
                                           quoted, Tail(s))

Collapse(f) == CollapseRuns("none", FALSE, f)

\* m is a sequence of segments, each a doubled apostrophe or a run of
\* non-apostrophe characters.
RECURSIVE IsSegments(_)
IsSegments(m) ==
  IF m = <<>> THEN TRUE
  ELSE IF Head(m) # Apostrophe THEN IsSegments(Tail(m))
       ELSE Len(m) >= 2 /\ m[2] = Apostrophe /\ IsSegments(Drop(m, 2))

\* The characters between the first and the last character of f.
Middle(f) == SubSeq(f, 2, Len(f) - 1)

\* f is: apostrophe, one or more segments, apostrophe.
IsQuotedLiteral(f) ==
  /\ Len(f) >= 3
  /\ f[1] = Apostrophe
  /\ f[Len(f)] = Apostrophe
  /\ IsSegments(Middle(f))

\* m with every doubled apostrophe replaced by one apostrophe.
RECURSIVE Undouble(_)
Undouble(m) ==
  IF m = <<>> THEN <<>>
  ELSE IF Head(m) = Apostrophe /\ Len(m) >= 2 /\ m[2] = Apostrophe
       THEN <<Apostrophe>> \o Undouble(Drop(m, 2))
       ELSE <<Head(m)>> \o Undouble(Tail(m))

PatternFormats ==
  StringsUpTo(PatternAlphabet, MaxPatLen)
    \cup Strings(PatternChars, 2)
    \cup RunFormats(LetterClasses)
    \cup TestFormats

PatternValues(f) ==
  { <<>>, <<"2","0">>, <<"2","0","0","0">>, <<"1","2">>, <<"2","0","1","2">>,
    <<"2","0","-","1","2">>, <<"-">>, <<"'">>, <<"j","a","n">>, <<"a","d">>,
    <<"T","u","e">> }
    \cup (IF IsQuotedLiteral(f) THEN {Undouble(Middle(f))} ELSE {})

PatternInputs == UNION { {<<v, f>> : v \in PatternValues(f)} : f \in PatternFormats }

InitPatterns == InitWith(PatternInputs)

SpecPatterns == InitPatterns /\ [][Next]_vars

-----------------------------------------------------------------------------
(* C5 *)

\* C5: a run of any length >= 1 over a reserved letter class compiles to
\* exactly one token of the class's kind, and the outcome of validate_datetime
\* is the same for a format and for the format with its reserved-letter runs
\* cut to length one.
C5_RunLengthDiscarded ==
  pc = "done" =>
    /\ \A r \in ReservedClasses :
         IsRunOver(format, r.class) => tokens = <<Tok(r.kind)>>
    /\ parse_pattern(Collapse(format)).tokens = tokens
    /\ validate_datetime(value, Collapse(format)) = result

\* "20" has passed "yyyy", a run of four letters.
C5_WitnessTwoDigitsPassFourLetterYear ==
  /\ pc = "done"
  /\ format = <<"y","y","y","y">>
  /\ Collapse(format) = <<"y">>
  /\ value = <<"2","0">>
  /\ tokens = <<Tok("Year")>>
  /\ result = "ok"

-----------------------------------------------------------------------------
(* C6 *)

\* C6: apostrophe, segments, apostrophe compiles to exactly one Text token
\* holding the segments with every doubled apostrophe replaced by one and
\* reserved letters kept; a bare doubled apostrophe compiles to a Text of one
\* apostrophe; the literal characters pass the quoted pattern.
C6_QuotedLiteralCompilesToItsText ==
  pc = "done" =>
    /\ IsQuotedLiteral(format) =>
         /\ tokens = <<Text(Undouble(Middle(format)))>>
         /\ value = Undouble(Middle(format)) => result = "ok"
    /\ (StartsWith(format, <<Apostrophe, Apostrophe>>)
          /\ (Len(format) = 2 \/ format[3] # Apostrophe))
         => (tokens # <<>> /\ tokens[1] = Text(<<Apostrophe>>))

\* dd-'MM'-yyyy has passed the quoted pattern with doubled apostrophes.
C6_WitnessDoubledApostrophesInQuote ==
  /\ pc = "done"
  /\ format = <<"'","d","d","-","'","'","M","M","'","'","-","y","y","y","y","'">>
  /\ value = <<"d","d","-","'","M","M","'","-","y","y","y","y">>
  /\ tokens = <<Text(value)>>
  /\ result = "ok"

-----------------------------------------------------------------------------
(* C9 *)

RECURSIVE Reverse(_)
Reverse(s) == IF s = <<>> THEN <<>> ELSE Reverse(Tail(s)) \o <<Head(s)>>

Rotate(s, k) == SubSeq(s, k + 1, Len(s)) \o SubSeq(s, 1, k)

\* Orders in which the thirteen recognizers may be tried: every rotation of
\* the source order and of its reverse.
Orders ==
  {Rotate(PatternAlternatives, k) : k \in 0..(Len(PatternAlternatives) - 1)}
    \cup {Rotate(Reverse(PatternAlternatives), k) :
            k \in 0..(Len(PatternAlternatives) - 1)}

IndexIn(order, name) == CHOOSE i \in 1..Len(order) : order[i] = name

\* The recognizers that match at the start of s.
MatchingAt(s) ==
  {PatternAlternatives[i] : i \in
     {j \in 1..Len(PatternAlternatives) :
        PatternRecognizer(PatternAlternatives[j], s).ok}}

\* C9 as stated: at every position of the pattern at most one recognizer
\* matches, and the tokens do not depend on the order of the recognizers.
C9_AtMostOneRecognizerMatches ==
  pc = "done" =>
    /\ \A i \in 0..Len(format) : Cardinality(MatchingAt(Drop(format, i))) <= 1
    /\ \A order \in Orders : ParsePatternWith(order, format).tokens = tokens

\* C9 amended: at every position at most one recognizer matches, except that
\* the quoted literal and the bare doubled apostrophe both match where three
\* apostrophes start a quote that is closed; the tokens do not depend on the
\* order of the recognizers as long as the quoted literal is tried before the
\* bare doubled apostrophe.
C9_AtMostOneExceptQuoteAndQuotedText ==
  pc = "done" =>
    /\ \A i \in 0..Len(format) :
         LET m == MatchingAt(Drop(format, i))
         IN  \/ Cardinality(m) <= 1
             \/ /\ m = {"quoted_text_pattern", "quote_pattern"}
                /\ StartsWith(Drop(format, i),
                              <<Apostrophe, Apostrophe, Apostrophe>>)
    /\ \A order \in Orders :
         IndexIn(order, "quoted_text_pattern") < IndexIn(order, "quote_pattern")
           => ParsePatternWith(order, format).tokens = tokens

\* Both apostrophe recognizers match at the start of four apostrophes and the
\* compiler took the quoted literal.
C9_WitnessFourApostrophes ==
  /\ pc = "done"
  /\ format = <<"'","'","'","'">>
  /\ MatchingAt(format) = {"quoted_text_pattern", "quote_pattern"}
  /\ tokens = <<Text(<<Apostrophe>>)>>
  /\ \E order \in Orders : ParsePatternWith(order, format).tokens # tokens

-----------------------------------------------------------------------------
(* Name inputs: every letter-case variant of every month and weekday name   *)
(* and abbreviation, followed by a short tail, against the run formats of   *)
(* the name's field.                                                        *)

FullMonthNames ==
  {
    <<"j","a","n","u","a","r","y">>, <<"f","e","b","r","u","a","r","y">>,
    <<"m","a","r","c","h">>, <<"a","p","r","i","l">>, <<"m","a","y">>,
    <<"j","u","n","e">>, <<"j","u","l","y">>, <<"a","u","g","u","s","t">>,
    <<"s","e","p","t","e","m","b","e","r">>,
    <<"o","c","t","o","b","e","r">>, <<"n","o","v","e","m","b","e","r">>,
    <<"d","e","c","e","m","b","e","r">> }

FullDayNames ==
  {
    <<"s","u","n","d","a","y">>, <<"m","o","n","d","a","y">>,
    <<"t","u","e","s","d","a","y">>,
    <<"w","e","d","n","e","s","d","a","y">>,
    <<"t","h","u","r","s","d","a","y">>, <<"f","r","i","d","a","y">>,
    <<"s","a","t","u","r","d","a","y">> }

TailChars == {"y", "1"}

\* The name and its three-letter abbreviation in every letter case.
CaseVariants(n) ==
  UNION { { [i \in 1..Len(m) |-> IF up[i] THEN ToUpper(m[i]) ELSE m[i]] :
              up \in [1..Len(m) -> BOOLEAN] } : m \in {n, Take(n, 3)} }

\* Names and abbreviations in every case, and the first two letters of each
\* name (which no recognizer accepts), each followed by a tail.
NameValues(names) ==
  {c \o tail : c \in UNION {CaseVariants(n) \cup {Take(n, 2)} : n \in names},
               tail \in StringsUpTo(TailChars, MaxTail)}

NameInputs ==
  (NameValues(FullMonthNames) \X RunFormats({{"M","L"}}))
    \cup (NameValues(FullDayNames) \X RunFormats({{"E"}}))

InitNames == InitWith(NameInputs)

SpecNames == InitNames /\ [][Next]_vars

-----------------------------------------------------------------------------
(* C7 *)

EqualsNoCase(s, n) ==
  Len(s) = Len(n) /\ \A i \in 1..Len(n) : ToLower(s[i]) = n[i]

StartsWithNoCase(s, n) == Len(s) >= Len(n) /\ EqualsNoCase(Take(s, Len(n)), n)

\* The name fields: letter class and full names.
NameFields ==
  { [class |-> {"M","L"}, names |-> FullMonthNames],
    [class |-> {"E"},     names |-> FullDayNames] }

\* C7: when the value starts with a full month or weekday name, in any letter
\* case, the Month / DayName recognizer matches and consumes the whole full
\* name; a value that is exactly a full name or exactly a three-letter
\* abbreviation is accepted by a single M/L run or E run.
C7_FullNameConsumedWhole ==
  \A fld \in NameFields :
    IsRunOver(format, fld.class) =>
      \A n \in fld.names :
        /\ (pc = "done" /\ StartsWithNoCase(value, n)) => idx = 2
        /\ (idx = 2 /\ StartsWithNoCase(value, n)) =>
             buffer = Drop(value, Len(n))
        /\ (pc = "done" /\ (EqualsNoCase(value, n)
                              \/ EqualsNoCase(value, Take(n, 3))))
             => result = "ok"

\* "Tuesday" has passed an E run with nothing left.
C7_WitnessTuesday ==
  /\ pc = "done"
  /\ IsRunOver(format, {"E"})
  /\ value = <<"T","u","e","s","d","a","y">>
  /\ buffer = <<>>
  /\ result = "ok"

=============================================================================
